---- MODULE Spec2Model ----
(***************************************************************************)
(* Multi-level page table of src/pt.c: a 5-level, 512-ary radix trie over  *)
(* physical memory, with page_table_update (create / destroy a mapping)    *)
(* and page_table_query.                                                   *)
(*                                                                         *)
(* A uint64_t is modelled exactly as the set of its 1-bit positions, a     *)
(* subset of 0..63, so that shifts, masks, +1 and -1 are the 64-bit        *)
(* operations of the C code, wrap-around included.                         *)
(***************************************************************************)
EXTENDS Integers, FiniteSets, Sequences, TLC

\* ------------------------------------------------------------------ bounds
\* Frames the allocator may hand out in one run (the root included).
MaxFrames == 6

\* ------------------------------------------------------- 64-bit arithmetic
\* Number of bits of a uint64_t.
WordBits == 64

Zero == {}

\* The word of a small non-negative integer.
ToWord(n) == {b \in 0..30 : (n \div (2^b)) % 2 = 1}

\* x << n on 64 bits: bits shifted past bit 63 are lost.
ShiftLeft(x, n) == {b + n : b \in {c \in x : c + n < WordBits}}

\* x >> n, logical.
ShiftRight(x, n) == {b - n : b \in {c \in x : c >= n}}

\* x & y.
BitAnd(x, y) == x \cap y

\* x % 2 == 1.
IsOdd(x) == 0 \in x

\* x + 1 modulo 2^64: the lowest clear bit is set, the set bits below it clear.
Inc(x) ==
    IF x = 0..(WordBits - 1) THEN Zero
    ELSE LET k == CHOOSE c \in 0..(WordBits - 1) :
                     c \notin x /\ \A d \in 0..(c - 1) : d \in x
         IN  {b \in x : b > k} \cup {k}

\* x - 1 modulo 2^64: the lowest set bit is cleared, the bits below it set.
Dec(x) ==
    IF x = Zero THEN 0..(WordBits - 1)
    ELSE LET k == CHOOSE c \in x : \A d \in x : c <= d
         IN  {b \in x : b > k} \cup 0..(k - 1)

\* ------------------------------------------------------ program constants
\* Variant: the mask is 0x1fe, which drops the lowest bit of every index.
mask_0x1fe == ToWord(510)

\* Variant: the mask is 0x3ff, which takes ten bits for every index.
mask_0x3ff == ToWord(1023)

\* #define EXTRACT_9BITS (0x1ff)
EXTRACT_9BITS == ToWord(511)

\* os.h: the reserved "no mapping" value, all 64 bits set.
NO_MAPPING == 0..(WordBits - 1)

\* ------------------------------------------------------- physical memory
\* Physical memory is a map from (frame number, entry index) to a word; a
\* location that was never written, or was written 0, is absent from the
\* map (frames are handed out zero-filled).
Load(m, node, idx) == IF <<node, idx>> \in DOMAIN m THEN m[<<node, idx>>] ELSE Zero

Store(m, node, idx, val) ==
    IF val = Zero
    THEN [k \in DOMAIN m \ {<<node, idx>>} |-> m[k]]
    ELSE [k \in DOMAIN m \cup {<<node, idx>>} |->
             IF k = <<node, idx>> THEN val ELSE m[k]]

\* os.c: the node (frame) a physical address lies in.  Every address the
\* walker resolves is page aligned, so the node is the page number.
phys_to_virt(pa) == ShiftRight(pa, 12)

\* os.c: hands out the next unused frame, zero-filled; frames are numbered
\* in allocation order.  The machine state s is [mem, nalloc].
alloc_page_frame(s) == [ppn |-> ToWord(s.nalloc), s |-> [s EXCEPT !.nalloc = @ + 1]]

\* ------------------------------------------------------------- the walker
\* Variant: the walk allocates a frame at every level, valid entry or not.
RECURSIVE create_walk_always_alloc(_, _, _, _, _)
create_walk_always_alloc(s, curr_pt, pte, vpn, i) ==
    IF i < 5
    THEN LET a  == alloc_page_frame(s)
             s1 == [a.s EXCEPT !.mem =
                       Store(@, curr_pt, pte, Inc(ShiftLeft(a.ppn, 12)))]
         IN  create_walk_always_alloc(s1,
                         phys_to_virt(Dec(Load(s1.mem, curr_pt, pte))),
                         BitAnd(ShiftRight(vpn, 36 - (i * 9)), EXTRACT_9BITS),
                         vpn, i + 1)
    ELSE [s |-> s, curr_pt |-> curr_pt, pte |-> pte]

\* Variant: a frame is taken from the allocator at every level, and used
\* only when the pointer entry is invalid.
RECURSIVE create_walk_eager_alloc(_, _, _, _, _)
create_walk_eager_alloc(s, curr_pt, pte, vpn, i) ==
    IF i < 5
    THEN LET a  == alloc_page_frame(s)
             s1 == IF ~IsOdd(Load(s.mem, curr_pt, pte))
                   THEN [a.s EXCEPT !.mem =
                            Store(@, curr_pt, pte, Inc(ShiftLeft(a.ppn, 12)))]
                   ELSE a.s
         IN  create_walk_eager_alloc(s1,
                         phys_to_virt(Dec(Load(s1.mem, curr_pt, pte))),
                         BitAnd(ShiftRight(vpn, 36 - (i * 9)), EXTRACT_9BITS),
                         vpn, i + 1)
    ELSE [s |-> s, curr_pt |-> curr_pt, pte |-> pte]

\* Variant: the pointer is made to the allocator's next frame, which is not
\* taken, so every missing level of one walk gets the same frame.
RECURSIVE create_walk_frame_not_taken(_, _, _, _, _)
create_walk_frame_not_taken(s, curr_pt, pte, vpn, i) ==
    IF i < 5
    THEN LET s1 == IF ~IsOdd(Load(s.mem, curr_pt, pte))
                   THEN [s EXCEPT !.mem =
                            Store(@, curr_pt, pte,
                                  Inc(ShiftLeft(alloc_page_frame(s).ppn, 12)))]
                   ELSE s
         IN  create_walk_frame_not_taken(s1,
                         phys_to_virt(Dec(Load(s1.mem, curr_pt, pte))),
                         BitAnd(ShiftRight(vpn, 36 - (i * 9)), EXTRACT_9BITS),
                         vpn, i + 1)
    ELSE [s |-> s, curr_pt |-> curr_pt, pte |-> pte]

\* Loop of create_virtual_memory_mapping, iterations i..4: an invalid
\* pointer entry is replaced by a pointer to a newly allocated frame, then
\* the walk descends through the entry and takes the next 9 bits of vpn.
RECURSIVE create_walk(_, _, _, _, _)
create_walk(s, curr_pt, pte, vpn, i) ==
    IF i < 5
    THEN LET a  == alloc_page_frame(s)
             s1 == IF ~IsOdd(Load(s.mem, curr_pt, pte))
                   THEN [a.s EXCEPT !.mem =
                            Store(@, curr_pt, pte, Inc(ShiftLeft(a.ppn, 12)))]
                   ELSE s
         IN  create_walk(s1,
                         phys_to_virt(Dec(Load(s1.mem, curr_pt, pte))),
                         BitAnd(ShiftRight(vpn, 36 - (i * 9)), EXTRACT_9BITS),
                         vpn, i + 1)
    ELSE [s |-> s, curr_pt |-> curr_pt, pte |-> pte]

\* Variant: the terminal entry is written as ppn + 1, the shift left out.
create_without_shift(s, root_pt, vpn, ppn) ==
    LET w == create_walk(s, root_pt,
                         BitAnd(ShiftRight(vpn, 36), EXTRACT_9BITS), vpn, 1)
    IN  [w.s EXCEPT !.mem = Store(@, w.curr_pt, w.pte, Inc(ppn))]

\* Variant: the terminal entry is written as ppn << 12, valid bit left clear.
create_without_valid_bit(s, root_pt, vpn, ppn) ==
    LET w == create_walk(s, root_pt,
                         BitAnd(ShiftRight(vpn, 36), EXTRACT_9BITS), vpn, 1)
    IN  [w.s EXCEPT !.mem = Store(@, w.curr_pt, w.pte, ShiftLeft(ppn, 12))]

\* create_virtual_memory_mapping(root_pt, vpn, ppn): the walk, then the
\* terminal entry is overwritten with (ppn << 12) + 1.
create_virtual_memory_mapping(s, root_pt, vpn, ppn) ==
    LET w == create_walk(s, root_pt,
                         BitAnd(ShiftRight(vpn, 36), EXTRACT_9BITS), vpn, 1)
    IN  [w.s EXCEPT !.mem = Store(@, w.curr_pt, w.pte, Inc(ShiftLeft(ppn, 12)))]

\* Variant: the loop ends one iteration early (i < 4).
RECURSIVE destroy_walk_short(_, _, _, _, _)
destroy_walk_short(s, curr_pt, pte, vpn, i) ==
    IF i < 4
    THEN IF ~IsOdd(Load(s.mem, curr_pt, pte))
         THEN [curr_pt |-> curr_pt, pte |-> pte]
         ELSE destroy_walk_short(s,
                           phys_to_virt(Dec(Load(s.mem, curr_pt, pte))),
                           BitAnd(ShiftRight(vpn, 36 - (i * 9)), EXTRACT_9BITS),
                           vpn, i + 1)
    ELSE [curr_pt |-> curr_pt, pte |-> pte]

\* Loop of destroy_virtual_memory_mapping, iterations i..4: stops (break) at
\* the first invalid pointer entry, with curr_pt and pte still naming it.
RECURSIVE destroy_walk(_, _, _, _, _)
destroy_walk(s, curr_pt, pte, vpn, i) ==
    IF i < 5
    THEN IF ~IsOdd(Load(s.mem, curr_pt, pte))
         THEN [curr_pt |-> curr_pt, pte |-> pte]
         ELSE destroy_walk(s,
                           phys_to_virt(Dec(Load(s.mem, curr_pt, pte))),
                           BitAnd(ShiftRight(vpn, 36 - (i * 9)), EXTRACT_9BITS),
                           vpn, i + 1)
    ELSE [curr_pt |-> curr_pt, pte |-> pte]

\* Variant: the top-level entry of vpn is set to 0, cutting off its subtree.
destroy_clearing_top_entry(s, root_pt, vpn) ==
    [s EXCEPT !.mem = Store(@, root_pt,
                            BitAnd(ShiftRight(vpn, 36), EXTRACT_9BITS), Zero)]

\* Variant: the walk is made, the entry it stopped at is left as it is.
destroy_without_clear(s, root_pt, vpn) ==
    LET w == destroy_walk(s, root_pt,
                          BitAnd(ShiftRight(vpn, 36), EXTRACT_9BITS), vpn, 1)
    IN  [s EXCEPT !.mem = Store(@, w.curr_pt, w.pte, Load(s.mem, w.curr_pt, w.pte))]

\* Variant: the valid bit is cleared by subtracting 1 from the entry.
destroy_subtracting_one(s, root_pt, vpn) ==
    LET w == destroy_walk(s, root_pt,
                          BitAnd(ShiftRight(vpn, 36), EXTRACT_9BITS), vpn, 1)
    IN  [s EXCEPT !.mem = Store(@, w.curr_pt, w.pte, Dec(Load(s.mem, w.curr_pt, w.pte)))]

\* Variant: destroy descends with the allocating walk of create.
destroy_allocating(s, root_pt, vpn) ==
    LET w == create_walk(s, root_pt,
                         BitAnd(ShiftRight(vpn, 36), EXTRACT_9BITS), vpn, 1)
    IN  [w.s EXCEPT !.mem = Store(@, w.curr_pt, w.pte, Zero)]

\* destroy_virtual_memory_mapping(root_pt, vpn): the walk, then the entry the
\* walk stopped at is set to 0.
destroy_virtual_memory_mapping(s, root_pt, vpn) ==
    LET w == destroy_walk(s, root_pt,
                          BitAnd(ShiftRight(vpn, 36), EXTRACT_9BITS), vpn, 1)
    IN  [s EXCEPT !.mem = Store(@, w.curr_pt, w.pte, Zero)]

\* Variant: the root node is taken at physical address pt, the shift by 12
\* left out.
page_table_update_without_shift(s, pt, vpn, ppn) ==
    LET pt_va == phys_to_virt(pt)
    IN  IF ppn = NO_MAPPING
        THEN destroy_virtual_memory_mapping(s, pt_va, vpn)
        ELSE create_virtual_memory_mapping(s, pt_va, vpn, ppn)

\* page_table_update(pt, vpn, ppn): destroy when ppn is NO_MAPPING, create
\* otherwise, on the node of physical address pt << 12.
page_table_update(s, pt, vpn, ppn) ==
    LET pt_va == phys_to_virt(ShiftLeft(pt, 12))
    IN  IF ppn = NO_MAPPING
        THEN destroy_virtual_memory_mapping(s, pt_va, vpn)
        ELSE create_virtual_memory_mapping(s, pt_va, vpn, ppn)

\* Variant: the page number is taken as the terminal entry >> 11.
RECURSIVE query_walk_shift_11(_, _, _, _, _)
query_walk_shift_11(s, curr_pt, pte, vpn, i) ==
    IF i < 5
    THEN IF ~IsOdd(Load(s.mem, curr_pt, pte))
         THEN [s |-> s, ret |-> NO_MAPPING]
         ELSE query_walk_shift_11(s,
                         phys_to_virt(Dec(Load(s.mem, curr_pt, pte))),
                         BitAnd(ShiftRight(vpn, 36 - (i * 9)), EXTRACT_9BITS),
                         vpn, i + 1)
    ELSE IF IsOdd(Load(s.mem, curr_pt, pte))
         THEN [s |-> s, ret |-> ShiftRight(Load(s.mem, curr_pt, pte), 11)]
         ELSE [s |-> s, ret |-> NO_MAPPING]

\* Loop of page_table_query, iterations i..4, and the test of the terminal
\* entry after it.  The result is the machine state and the returned value.
RECURSIVE query_walk(_, _, _, _, _)
query_walk(s, curr_pt, pte, vpn, i) ==
    IF i < 5
    THEN IF ~IsOdd(Load(s.mem, curr_pt, pte))
         THEN [s |-> s, ret |-> NO_MAPPING]
         ELSE query_walk(s,
                         phys_to_virt(Dec(Load(s.mem, curr_pt, pte))),
                         BitAnd(ShiftRight(vpn, 36 - (i * 9)), EXTRACT_9BITS),
                         vpn, i + 1)
    ELSE IF IsOdd(Load(s.mem, curr_pt, pte))
         THEN [s |-> s, ret |-> ShiftRight(Load(s.mem, curr_pt, pte), 12)]
         ELSE [s |-> s, ret |-> NO_MAPPING]

\* Variant: query descends with the allocating walk of create.
query_allocating(s, pt, vpn) ==
    LET w == create_walk(s, phys_to_virt(ShiftLeft(pt, 12)),
                         BitAnd(ShiftRight(vpn, 36), EXTRACT_9BITS), vpn, 1)
    IN  IF IsOdd(Load(w.s.mem, w.curr_pt, w.pte))
        THEN [s |-> w.s, ret |-> ShiftRight(Load(w.s.mem, w.curr_pt, w.pte), 12)]
        ELSE [s |-> w.s, ret |-> NO_MAPPING]

\* Variant: an absent mapping is reported as page number 0.
query_returning_zero(s, pt, vpn) ==
    LET r == query_walk(s, phys_to_virt(ShiftLeft(pt, 12)),
                        BitAnd(ShiftRight(vpn, 36), EXTRACT_9BITS), vpn, 1)
    IN  IF r.ret = NO_MAPPING THEN [r EXCEPT !.ret = Zero] ELSE r

\* page_table_query(pt, vpn).
page_table_query(s, pt, vpn) ==
    query_walk(s, phys_to_virt(ShiftLeft(pt, 12)),
               BitAnd(ShiftRight(vpn, 36), EXTRACT_9BITS), vpn, 1)

\* ------------------------------------------------------------------ inputs
\* Page table roots: the table under test is rooted at the first frame the
\* allocator hands out.
Roots == {ToWord(0)}

\* Virtual page numbers the calls are made with: 0x1000; 0x1001, its sibling
\* in the same bottom-level node; 0x1000 with bit 9, 18, 27 set, which part
\* from it at the fourth, third and second level; 2^36, which parts from it
\* at the root; and 0x1000 with bit 45 set.
VPNs == {ToWord(4096), ToWord(4097), ToWord(4096) \cup {9},
         ToWord(4096) \cup {18}, ToWord(4096) \cup {27}, {36},
         ToWord(4096) \cup {45}}

\* Physical page numbers the calls are made with: 7, 9, 7 + 2^52 and
\* NO_MAPPING.
PPNs == {ToWord(7), ToWord(9), ToWord(7) \cup {52}, NO_MAPPING}

\* ------------------------------------------------------------------- state
VARIABLES
    mem,      \* physical memory: the entries of all page table nodes
    nalloc,   \* allocator: number of frames handed out so far
    last,     \* the most recent call: [op, pt, vpn, ppn, old, ret], where old
              \* is what a query of vpn returned when the call began
    amap,     \* history: per root and 45-bit vpn, the ppn of its latest create
    call      \* the call in progress when calls are followed statement by
              \* statement (StepSpec): its arguments, its locals i, curr_pt
              \* and pte, and where it stands

vars == <<mem, nalloc, last, amap, call>>

\* No call is in progress.
IdleCall ==
    [pc |-> "idle", op |-> "none", pt |-> Zero, vpn |-> Zero, ppn |-> Zero,
     i |-> 0, curr_pt |-> Zero, pte |-> Zero, derefs |-> 0, finals |-> 0,
     ret |-> Zero]

\* The machine state the operations act on.
Machine == [mem |-> mem, nalloc |-> nalloc]

\* The low 45 bits of a vpn.
Low45(v) == v \cap 0..44

\* The low 52 bits of a ppn.
Low52(p) == p \cap 0..51

\* The root has been allocated and every frame is zero.
Init ==
    /\ mem = << >>
    /\ nalloc = Cardinality(Roots)
    /\ last = [op |-> "none", pt |-> Zero, vpn |-> Zero, ppn |-> Zero,
               old |-> Zero, ret |-> Zero]
    /\ amap = << >>
    /\ call = IdleCall

\* A call page_table_update(pt, vpn, ppn).  The call is made only when the
\* allocator has the frames it needs.  last and amap record the call.
Update(pt, vpn, ppn) ==
    LET s == page_table_update(Machine, pt, vpn, ppn)
    IN  /\ s.nalloc <= MaxFrames
        /\ mem' = s.mem
        /\ nalloc' = s.nalloc
        /\ last' = [op |-> "update", pt |-> pt, vpn |-> vpn, ppn |-> ppn,
                     old |-> page_table_query(Machine, pt, vpn).ret, ret |-> Zero]
        /\ amap' = IF ppn = NO_MAPPING
                   THEN [k \in DOMAIN amap \ {<<pt, Low45(vpn)>>} |-> amap[k]]
                   ELSE [k \in DOMAIN amap \cup {<<pt, Low45(vpn)>>} |->
                            IF k = <<pt, Low45(vpn)>> THEN ppn ELSE amap[k]]
        /\ UNCHANGED call

\* A call page_table_query(pt, vpn).
Query(pt, vpn) ==
    LET r == page_table_query(Machine, pt, vpn)
    IN  /\ mem' = r.s.mem
        /\ nalloc' = r.s.nalloc
        /\ last' = [op |-> "query", pt |-> pt, vpn |-> vpn, ppn |-> Zero,
                     old |-> r.ret, ret |-> r.ret]
        /\ UNCHANGED <<amap, call>>

Next ==
    \/ \E pt \in Roots, vpn \in VPNs, ppn \in PPNs : Update(pt, vpn, ppn)
    \/ \E pt \in Roots, vpn \in VPNs : Query(pt, vpn)

Spec == Init /\ [][Next]_vars

\* ---------------------------------------------------- paths in the table
\* The entries a read-only walk for vpn visits in memory m, in order: the
\* valid pointer entries of levels 1..4 it descends through, then the entry
\* it stops at, which is the terminal (level-5) entry when there are five.
RECURSIVE PathFrom(_, _, _, _, _)
PathFrom(m, curr_pt, pte, vpn, i) ==
    IF i < 5 /\ IsOdd(Load(m, curr_pt, pte))
    THEN <<<<curr_pt, pte>>>> \o
         PathFrom(m, phys_to_virt(Dec(Load(m, curr_pt, pte))),
                  BitAnd(ShiftRight(vpn, 36 - (i * 9)), EXTRACT_9BITS), vpn, i + 1)
    ELSE <<<<curr_pt, pte>>>>

Path(m, pt, vpn) ==
    PathFrom(m, phys_to_virt(ShiftLeft(pt, 12)),
             BitAnd(ShiftRight(vpn, 36), EXTRACT_9BITS), vpn, 1)

\* How many of the four pointer entries on vpn's path are valid (0..4).
ValidLevels(m, pt, vpn) == Len(Path(m, pt, vpn)) - 1

\* The nodes of level k (1: the roots, .., 5: the bottom-level nodes).
RECURSIVE LevelNodes(_, _)
LevelNodes(m, k) ==
    IF k = 1
    THEN {phys_to_virt(ShiftLeft(pt, 12)) : pt \in Roots}
    ELSE LET up == LevelNodes(m, k - 1)
         IN  {phys_to_virt(Dec(m[e])) :
                 e \in {d \in DOMAIN m : d[1] \in up /\ IsOdd(m[d])}}

\* The non-zero pointer entries (levels 1..4) of memory m.
PointerEntries(m) ==
    LET nodes == UNION {LevelNodes(m, k) : k \in 1..4}
    IN  {e \in DOMAIN m : e[1] \in nodes}

\* Node holds no non-zero entry in memory m.
NodeEmpty(m, node) == \A e \in DOMAIN m : e[1] # node

\* The machine state create reaches for (pt, vpn) when its walk is over and
\* the terminal entry is not yet written.
AfterCreateWalk(s, pt, vpn) ==
    create_walk(s, phys_to_virt(ShiftLeft(pt, 12)),
                BitAnd(ShiftRight(vpn, 36), EXTRACT_9BITS), vpn, 1).s

\* What page_table_query(pt, vpn) returns in machine state s.
Lookup(s, pt, vpn) == page_table_query(s, pt, vpn).ret

IsCreate(c) == c.op = "update" /\ c.ppn # NO_MAPPING
IsDestroy(c) == c.op = "update" /\ c.ppn = NO_MAPPING

\* ------------------------------------------------------------- properties

\* C1 as stated: after page_table_update(R, v, p) with any 64-bit p other
\* than NO_MAPPING, page_table_query(R, v) returns exactly p.
C1_RoundTripAnyPpn ==
    IsCreate(last) => Lookup(Machine, last.pt, last.vpn) = last.ppn

\* C1 amended: after page_table_update(R, v, p) with p below 2^52,
\* page_table_query(R, v) returns exactly p.
C1_RoundTrip ==
    (IsCreate(last) /\ last.ppn \subseteq 0..51)
        => Lookup(Machine, last.pt, last.vpn) = last.ppn

\* C1 witness: an unmapped vpn has just been mapped to 7 and resolves to 7.
C1_Witness ==
    /\ IsCreate(last) /\ last.ppn = ToWord(7) /\ last.old = NO_MAPPING
    /\ Lookup(Machine, last.pt, last.vpn) = ToWord(7)

\* The abstract partial map: the ppn of the latest update of the 45-bit vpn
\* if that update was a create.
AbstractMapped(pt, vpn) == <<pt, Low45(vpn)>> \in DOMAIN amap
AbstractPpn(pt, vpn) == amap[<<pt, Low45(vpn)>>]

\* C2 as stated: page_table_query(R, v) returns the PPN of the most recent
\* update of v's low 45 bits if it was a create, NO_MAPPING otherwise.
C2_MapSemanticsAnyPpn ==
    \A pt \in Roots, vpn \in VPNs :
        Lookup(Machine, pt, vpn) =
            IF AbstractMapped(pt, vpn) THEN AbstractPpn(pt, vpn) ELSE NO_MAPPING

\* C2 amended: page_table_query(R, v) returns the low 52 bits of the PPN of
\* the most recent update of v's low 45 bits if it was a create (the PPN
\* itself when it is below 2^52), NO_MAPPING otherwise.
C2_MapSemantics ==
    \A pt \in Roots, vpn \in VPNs :
        Lookup(Machine, pt, vpn) =
            IF AbstractMapped(pt, vpn) THEN Low52(AbstractPpn(pt, vpn))
            ELSE NO_MAPPING

\* C2 witness: a mapped vpn has just been unmapped while two other vpns of
\* the same table stay mapped, to different pages.
C2_Witness ==
    /\ IsDestroy(last) /\ last.old # NO_MAPPING
    /\ \E v1, v2 \in VPNs :
          /\ AbstractMapped(last.pt, v1) /\ AbstractMapped(last.pt, v2)
          /\ Lookup(Machine, last.pt, v1) = ToWord(7)
          /\ Lookup(Machine, last.pt, v2) = ToWord(9)

\* C3 as stated: a create for v1 leaves page_table_query(R, v2) as it was
\* for every v2 other than v1.
C3_NonInterferenceAnyOther ==
    [][IsCreate(last') =>
          \A v2 \in VPNs \ {last'.vpn} :
              Lookup(Machine', last'.pt, v2) = Lookup(Machine, last'.pt, v2)]_vars

\* C3 amended: a create for v1 leaves page_table_query(R, v2) as it was for
\* every v2 whose low 45 bits differ from those of v1, also when v2 differs
\* from v1 only in the lowest index group.
C3_NonInterference ==
    [][IsCreate(last') =>
          \A v2 \in {v \in VPNs : Low45(v) # Low45(last'.vpn)} :
              Lookup(Machine', last'.pt, v2) = Lookup(Machine, last'.pt, v2)]_vars

\* C3 witness: a vpn has just been mapped whose bottom-level node holds the
\* live mapping of a sibling vpn.
C3_Witness ==
    /\ IsCreate(last) /\ last.old = NO_MAPPING
    /\ \E v2 \in VPNs :
          /\ Low45(v2) # Low45(last.vpn)
          /\ Lookup(Machine, last.pt, v2) # NO_MAPPING
          /\ Path(mem, last.pt, v2)[5][1] = Path(mem, last.pt, last.vpn)[5][1]

\* C4: after page_table_update(R, v, NO_MAPPING), page_table_query(R, v)
\* returns NO_MAPPING, whatever v's path was.
C4_UnmapClears ==
    IsDestroy(last) => Lookup(Machine, last.pt, last.vpn) = NO_MAPPING

\* C4 witness: a mapped vpn has just been unmapped.
C4_Witness ==
    /\ IsDestroy(last) /\ last.old # NO_MAPPING
    /\ Lookup(Machine, last.pt, last.vpn) = NO_MAPPING

\* C5: a destroy for a vpn with an invalid pointer entry on its path changes
\* no entry of any node and allocates nothing.
C5_DestroyMissingPathNoOp ==
    [][(IsDestroy(last') /\ ValidLevels(mem, last'.pt, last'.vpn) < 4)
          => (mem' = mem /\ nalloc' = nalloc)]_vars

\* C5 witness: a destroy has just been made for a vpn whose path exists for
\* two levels only, in a table that holds mappings.
C5_Witness ==
    /\ IsDestroy(last) /\ ValidLevels(mem, last.pt, last.vpn) = 2
    /\ \E v \in VPNs : Lookup(Machine, last.pt, v) # NO_MAPPING

\* C6 as stated: after update(R, v, p1), a further update(R, v, p2) with
\* another p2 makes page_table_query(R, v) return p2, leaves the table as
\* if only it had been applied to the state at the end of the first walk,
\* and allocates no frame.
C6_OverwriteAnyPpn ==
    [][IsCreate(last') =>
          \A p2 \in PPNs \ {NO_MAPPING, last'.ppn} :
              LET s2 == page_table_update(Machine', last'.pt, last'.vpn, p2)
                  w  == AfterCreateWalk(Machine, last'.pt, last'.vpn)
              IN  /\ Lookup(s2, last'.pt, last'.vpn) = p2
                  /\ s2.mem = page_table_update(w, last'.pt, last'.vpn, p2).mem
                  /\ s2.nalloc = nalloc']_vars

\* C6 amended: as stated, with page_table_query(R, v) returning the low 52
\* bits of p2 (p2 itself when it is below 2^52).
C6_Overwrite ==
    [][IsCreate(last') =>
          \A p2 \in PPNs \ {NO_MAPPING, last'.ppn} :
              LET s2 == page_table_update(Machine', last'.pt, last'.vpn, p2)
                  w  == AfterCreateWalk(Machine, last'.pt, last'.vpn)
              IN  /\ Lookup(s2, last'.pt, last'.vpn) = Low52(p2)
                  /\ s2.mem = page_table_update(w, last'.pt, last'.vpn, p2).mem
                  /\ s2.nalloc = nalloc']_vars

\* C6 witness: a vpn mapped to 7 has just been mapped to 9 and resolves to 9.
C6_Witness ==
    /\ IsCreate(last) /\ last.old = ToWord(7) /\ last.ppn = ToWord(9)
    /\ Lookup(Machine, last.pt, last.vpn) = ToWord(9)

\* C7: after page_table_update(R, v, NO_MAPPING), a second such call leaves
\* every entry of every node, and so every query result, as it is.
C7_IdempotentUnmap ==
    IsDestroy(last) =>
        LET twice == page_table_update(Machine, last.pt, last.vpn, NO_MAPPING)
        IN  /\ twice = Machine
            /\ \A pt \in Roots, vpn \in VPNs :
                  Lookup(twice, pt, vpn) = Lookup(Machine, pt, vpn)

\* C7 witness: a destroy has just been made for a vpn that was already
\* unmapped and whose whole path exists, its bottom-level node being empty
\* (the mapping it was built for is gone).
C7_Witness ==
    /\ IsDestroy(last) /\ last.old = NO_MAPPING
    /\ ValidLevels(mem, last.pt, last.vpn) = 4
    /\ NodeEmpty(mem, Path(mem, last.pt, last.vpn)[5][1])

\* C8: two vpns that agree on bits 0..44 get the same query result, and an
\* update with either of them and the same x gives the same machine state.
C8_AliasBoundary ==
    \A pt \in Roots, v1 \in VPNs :
        \A v2 \in {v \in VPNs : v # v1 /\ Low45(v) = Low45(v1)} :
            /\ Lookup(Machine, pt, v1) = Lookup(Machine, pt, v2)
            /\ \A x \in PPNs :
                  page_table_update(Machine, pt, v1, x) =
                      page_table_update(Machine, pt, v2, x)

\* C8 witness: a mapping has just been made with a vpn that has bit 45 set,
\* and the vpn with the same low 45 bits and bit 45 clear resolves to it.
C8_Witness ==
    /\ IsCreate(last) /\ 45 \in last.vpn /\ last.old = NO_MAPPING
    /\ Lookup(Machine, last.pt, Low45(last.vpn)) = Low52(last.ppn)

\* C9: a call of page_table_query changes no entry of any node and does not
\* call the allocator.
C9_QueryReadOnly ==
    [][last'.op = "query" => (mem' = mem /\ nalloc' = nalloc)]_vars

\* C9 witness: a query has just returned NO_MAPPING for a vpn whose path
\* ends at an invalid pointer entry of level 4.
C9_Witness ==
    /\ last.op = "query" /\ last.ret = NO_MAPPING
    /\ ValidLevels(mem, last.pt, last.vpn) = 3

\* C10: a valid pointer entry of levels 1..4 keeps its value in every step;
\* a destroy changes no entry other than the level-5 entry of its vpn's path.
C10_IntermediateNodesPermanent ==
    [][/\ \A e \in PointerEntries(mem) :
             IsOdd(mem[e]) => Load(mem', e[1], e[2]) = mem[e]
       /\ IsDestroy(last') =>
             \A e \in DOMAIN mem \cup DOMAIN mem' :
                 Load(mem', e[1], e[2]) # Load(mem, e[1], e[2]) =>
                     /\ ValidLevels(mem, last'.pt, last'.vpn) = 4
                     /\ e = Path(mem, last'.pt, last'.vpn)[5]]_vars

\* C10 witness: the only mapping below a bottom-level node has just been
\* destroyed, and the four pointer entries leading to the node are valid.
C10_Witness ==
    /\ IsDestroy(last) /\ last.old # NO_MAPPING
    /\ ValidLevels(mem, last.pt, last.vpn) = 4
    /\ NodeEmpty(mem, Path(mem, last.pt, last.vpn)[5][1])

\* C11: in every reachable state, a create for vpn calls alloc_page_frame
\* once for each of the four pointer entries on vpn's path that is invalid
\* (none when all four are valid), and a destroy or a query calls it never.
C11_LazyAllocation ==
    \A pt \in Roots, vpn \in VPNs :
        /\ \A ppn \in PPNs \ {NO_MAPPING} :
              page_table_update(Machine, pt, vpn, ppn).nalloc =
                  nalloc + (4 - ValidLevels(mem, pt, vpn))
        /\ page_table_update(Machine, pt, vpn, NO_MAPPING).nalloc = nalloc
        /\ page_table_query(Machine, pt, vpn).s.nalloc = nalloc

\* C11 witness: a vpn has just been mapped by a create that found part of
\* its path in place: two bottom-level nodes hold mappings and the table has
\* five nodes besides the root.
C11_Witness ==
    /\ IsCreate(last) /\ last.old = NO_MAPPING /\ nalloc = 6
    /\ \E v \in VPNs :
          /\ Lookup(Machine, last.pt, v) # NO_MAPPING
          /\ Path(mem, last.pt, v)[5][1] # Path(mem, last.pt, last.vpn)[5][1]

\* ------------------------------------------- calls, statement by statement
\* The same functions followed one loop iteration at a time.  call.derefs
\* counts the pointer entries dereferenced (phys_to_virt in the loop) and
\* call.finals the accesses to curr_pt[pte] after the loop.

\* The index of the next level, (vpn >> (36 - (i*9))) & EXTRACT_9BITS.
NextIndex(vpn, i) == BitAnd(ShiftRight(vpn, 36 - (i * 9)), EXTRACT_9BITS)

\* page_table_update(pt, vpn, ppn) is entered: it dispatches on ppn and the
\* callee sets curr_pt and pte for the root level.
CallUpdate(pt, vpn, ppn) ==
    /\ call.pc = "idle"
    /\ page_table_update(Machine, pt, vpn, ppn).nalloc <= MaxFrames
    /\ call' = [IdleCall EXCEPT
                   !.pc = "loop",
                   !.op = IF ppn = NO_MAPPING THEN "destroy" ELSE "create",
                   !.pt = pt, !.vpn = vpn, !.ppn = ppn, !.i = 1,
                   !.curr_pt = phys_to_virt(ShiftLeft(pt, 12)),
                   !.pte = BitAnd(ShiftRight(vpn, 36), EXTRACT_9BITS)]
    /\ UNCHANGED <<mem, nalloc, last, amap>>

\* page_table_query(pt, vpn) is entered.
CallQuery(pt, vpn) ==
    /\ call.pc = "idle"
    /\ call' = [IdleCall EXCEPT
                   !.pc = "loop", !.op = "query",
                   !.pt = pt, !.vpn = vpn, !.i = 1,
                   !.curr_pt = phys_to_virt(ShiftLeft(pt, 12)),
                   !.pte = BitAnd(ShiftRight(vpn, 36), EXTRACT_9BITS)]
    /\ UNCHANGED <<mem, nalloc, last, amap>>

\* One iteration of the loop of create_virtual_memory_mapping.
CreateStep ==
    /\ call.pc = "loop" /\ call.op = "create" /\ call.i < 5
    /\ LET a  == alloc_page_frame(Machine)
           s1 == IF ~IsOdd(Load(mem, call.curr_pt, call.pte))
                 THEN [a.s EXCEPT !.mem =
                          Store(@, call.curr_pt, call.pte, Inc(ShiftLeft(a.ppn, 12)))]
                 ELSE Machine
       IN  /\ mem' = s1.mem
           /\ nalloc' = s1.nalloc
           /\ call' = [call EXCEPT
                          !.curr_pt = phys_to_virt(Dec(Load(s1.mem, call.curr_pt, call.pte))),
                          !.pte = NextIndex(call.vpn, call.i),
                          !.i = @ + 1, !.derefs = @ + 1]
    /\ UNCHANGED <<last, amap>>

\* The store after the loop of create_virtual_memory_mapping, and the return.
CreateFinish ==
    /\ call.pc = "loop" /\ call.op = "create" /\ ~(call.i < 5)
    /\ mem' = Store(mem, call.curr_pt, call.pte, Inc(ShiftLeft(call.ppn, 12)))
    /\ call' = [call EXCEPT !.pc = "done", !.finals = @ + 1]
    /\ UNCHANGED <<nalloc, last, amap>>

\* One iteration of the loop of destroy_virtual_memory_mapping: break at an
\* invalid pointer entry, descend through a valid one.
DestroyStep ==
    /\ call.pc = "loop" /\ call.op = "destroy" /\ call.i < 5
    /\ call' = IF ~IsOdd(Load(mem, call.curr_pt, call.pte))
               THEN [call EXCEPT !.pc = "after"]
               ELSE [call EXCEPT
                        !.curr_pt = phys_to_virt(Dec(Load(mem, call.curr_pt, call.pte))),
                        !.pte = NextIndex(call.vpn, call.i),
                        !.i = @ + 1, !.derefs = @ + 1]
    /\ UNCHANGED <<mem, nalloc, last, amap>>

\* The store after the loop of destroy_virtual_memory_mapping (reached by the
\* break or by the end of the loop), and the return.
DestroyFinish ==
    /\ call.op = "destroy"
    /\ call.pc = "after" \/ (call.pc = "loop" /\ ~(call.i < 5))
    /\ mem' = Store(mem, call.curr_pt, call.pte, Zero)
    /\ call' = [call EXCEPT !.pc = "done", !.finals = @ + 1]
    /\ UNCHANGED <<nalloc, last, amap>>

\* Variant: the loop of page_table_query does not advance i.
QueryStep_no_increment ==
    /\ call.pc = "loop" /\ call.op = "query" /\ call.i < 5
    /\ call' = IF ~IsOdd(Load(mem, call.curr_pt, call.pte))
               THEN [call EXCEPT !.pc = "done", !.ret = NO_MAPPING]
               ELSE [call EXCEPT
                        !.curr_pt = phys_to_virt(Dec(Load(mem, call.curr_pt, call.pte))),
                        !.pte = NextIndex(call.vpn, call.i),
                        !.derefs = @ + 1]
    /\ UNCHANGED <<mem, nalloc, last, amap>>

\* One iteration of the loop of page_table_query: return NO_MAPPING at an
\* invalid pointer entry, descend through a valid one.
QueryStep ==
    /\ call.pc = "loop" /\ call.op = "query" /\ call.i < 5
    /\ call' = IF ~IsOdd(Load(mem, call.curr_pt, call.pte))
               THEN [call EXCEPT !.pc = "done", !.ret = NO_MAPPING]
               ELSE [call EXCEPT
                        !.curr_pt = phys_to_virt(Dec(Load(mem, call.curr_pt, call.pte))),
                        !.pte = NextIndex(call.vpn, call.i),
                        !.i = @ + 1, !.derefs = @ + 1]
    /\ UNCHANGED <<mem, nalloc, last, amap>>

\* The test of the terminal entry after the loop of page_table_query, and
\* the return.
QueryFinish ==
    /\ call.pc = "loop" /\ call.op = "query" /\ ~(call.i < 5)
    /\ call' = [call EXCEPT
                   !.pc = "done", !.finals = @ + 1,
                   !.ret = IF IsOdd(Load(mem, call.curr_pt, call.pte))
                           THEN ShiftRight(Load(mem, call.curr_pt, call.pte), 12)
                           ELSE NO_MAPPING]
    /\ UNCHANGED <<mem, nalloc, last, amap>>

\* The caller takes the result; the next call can be made.
Return ==
    /\ call.pc = "done"
    /\ call' = IdleCall
    /\ UNCHANGED <<mem, nalloc, last, amap>>

\* The statements of a call that has been entered.
Running ==
    \/ CreateStep
    \/ CreateFinish
    \/ DestroyStep
    \/ DestroyFinish
    \/ QueryStep
    \/ QueryFinish
    \/ Return

StepNext ==
    \/ \E pt \in Roots, vpn \in VPNs, ppn \in PPNs : CallUpdate(pt, vpn, ppn)
    \/ \E pt \in Roots, vpn \in VPNs : CallQuery(pt, vpn)
    \/ Running

\* A call that has been entered keeps running (nothing suspends it); the
\* callers may stop calling.
StepSpec == Init /\ [][StepNext]_vars /\ WF_vars(Running)

\* The result of call c, computed by the function as a whole from machine
\* state s.
WholeCall(c, s) ==
    IF c.op = "query"
    THEN page_table_query(s, c.pt, c.vpn)
    ELSE [s |-> page_table_update(s, c.pt, c.vpn, c.ppn), ret |-> Zero]

\* The statement-level calls compute what the functions as a whole compute:
\* no statement of a call changes the result the whole function gives, and a
\* finished call has reached it.
StepsKeepResult ==
    [][(call.pc \in {"loop", "after"} /\ call'.pc # "idle")
          => WholeCall(call', Machine') = WholeCall(call, Machine)]_vars

StepsReachResult ==
    call.pc = "done" =>
        /\ WholeCall(call, Machine).s = Machine
        /\ WholeCall(call, Machine).ret = call.ret

\* C12, bounds: a call dereferences at most four pointer entries and makes
\* at most one access after its loop; a finished create has descended
\* exactly four times; a finished destroy or query has descended through the
\* valid pointer entries before the first invalid one, and no further.
C12_Bounded ==
    /\ call.i <= 5 /\ call.derefs <= 4 /\ call.finals <= 1
    /\ call.pc = "done" =>
          /\ call.op = "create" => (call.derefs = 4 /\ call.finals = 1)
          /\ call.op = "destroy" =>
                /\ call.derefs = ValidLevels(mem, call.pt, call.vpn)
                /\ call.finals = 1
          /\ call.op = "query" =>
                /\ call.derefs = ValidLevels(mem, call.pt, call.vpn)
                /\ call.finals = IF call.derefs = 4 THEN 1 ELSE 0

\* C12: every call of page_table_update and page_table_query that is entered
\* returns, within the bounds of C12_Bounded.
C12_Termination ==
    /\ []C12_Bounded
    /\ (call.pc = "loop") ~> (call.pc = "done")

\* C12 witness: a destroy has returned after two dereferences, stopped by
\* the invalid pointer entry of level 3, in a table that holds a mapping.
C12_Witness ==
    /\ call.pc = "done" /\ call.op = "destroy"
    /\ call.derefs = 2 /\ call.finals = 1
    /\ \E v \in VPNs : Lookup(Machine, call.pt, v) # NO_MAPPING

\* C13: every entry of every node is either 0 or has bit 0 set and bits
\* 1..11 clear, so an entry is invalid exactly when it is 0.  (The entries
\* that are not 0 are the ones memory records; frame numbers handed out by
\* the allocator are below 2^52.)
C13_EntryLayout ==
    /\ \A e \in DOMAIN mem :
          /\ mem[e] # Zero
          /\ IsOdd(mem[e])
          /\ mem[e] \cap 1..11 = {}
    /\ \A pt \in Roots, vpn \in VPNs :
          \A k \in 1..Len(Path(mem, pt, vpn)) :
              LET e == Path(mem, pt, vpn)[k]
              IN  ~IsOdd(Load(mem, e[1], e[2])) <=> Load(mem, e[1], e[2]) = Zero

\* C13 witness: the table holds pointer entries, a terminal entry made from
\* a PPN of more than 52 bits, and a terminal entry that has just been
\* cleared.
C13_Witness ==
    /\ IsDestroy(last) /\ last.old # NO_MAPPING
    /\ \E k \in DOMAIN amap : 52 \in amap[k]
    /\ PointerEntries(mem) # {}

\* ((p * 2^12) mod 2^64) + 1, bit by bit: bit 0, and bit b + 12 for every
\* bit b < 52 of p.
LeafEncoding(p) == {0} \cup {b + 12 : b \in {c \in p : c < 52}}

\* C14: after page_table_update(R, v, p) with p other than NO_MAPPING the
\* level-5 entry of v's path is ((p * 2^12) mod 2^64) + 1, and
\* page_table_query(R, v) returns that entry shifted right by 12, which is
\* p mod 2^52.
C14_LeafEncoding ==
    IsCreate(last) =>
        LET path == Path(mem, last.pt, last.vpn)
        IN  /\ Len(path) = 5
            /\ mem[path[5]] = LeafEncoding(last.ppn)
            /\ Lookup(Machine, last.pt, last.vpn) =
                   {b - 12 : b \in mem[path[5]] \ 0..11}
            /\ Lookup(Machine, last.pt, last.vpn) = last.ppn \cap 0..51

\* C14 witness: a vpn has just been mapped to 7 + 2^52 and resolves to 7.
C14_Witness ==
    /\ IsCreate(last) /\ last.ppn = ToWord(7) \cup {52}
    /\ Lookup(Machine, last.pt, last.vpn) = ToWord(7)

\* C15: for v1 and v2 whose low 45 bits differ, page_table_query(R, v2)
\* returns the same value before and after
\* page_table_update(R, v1, NO_MAPPING), also when v2 shares its top four
\* index groups with v1 and when v1's path is only partially present.
C15_DestroyNonInterference ==
    \A pt \in Roots, v1 \in VPNs :
        \A v2 \in {v \in VPNs : Low45(v) # Low45(v1)} :
            Lookup(page_table_update(Machine, pt, v1, NO_MAPPING), pt, v2) =
                Lookup(Machine, pt, v2)

\* C15 witness: a mapped vpn has just been unmapped while a sibling in the
\* same bottom-level node stays mapped, and another vpn with a partially
\* present path (one to three valid pointer entries) is there to be destroyed.
C15_Witness ==
    /\ IsDestroy(last) /\ last.old # NO_MAPPING
    /\ \E v2 \in VPNs :
          /\ Low45(v2) # Low45(last.vpn)
          /\ Lookup(Machine, last.pt, v2) # NO_MAPPING
          /\ Path(mem, last.pt, v2)[5][1] = Path(mem, last.pt, last.vpn)[5][1]
    /\ \E v3 \in VPNs : ValidLevels(mem, last.pt, v3) \in 1..3

\* The page number a pointer entry holds.
Target(m, e) == ShiftRight(m[e], 12)

\* C16: with an allocator that returns fresh frames, no two valid pointer
\* entries (levels 1 to 4) hold the same page number and none holds the
\* root's; every non-root node is reached by exactly one path from the root
\* and every node sits at exactly one depth.
C16_TreeShape ==
    LET ptrs == PointerEntries(mem)
    IN  /\ \A e1 \in ptrs, e2 \in ptrs :
              e1 # e2 => Target(mem, e1) # Target(mem, e2)
        /\ \A e \in ptrs : Target(mem, e) \notin Roots
        /\ \A j \in 1..5, k \in 1..5 :
              j # k => LevelNodes(mem, j) \cap LevelNodes(mem, k) = {}
        /\ \A k \in 2..5 : \A node \in LevelNodes(mem, k) :
              Cardinality({e \in ptrs : phys_to_virt(Dec(mem[e])) = node}) = 1

\* C16 witness: a create has just allocated, the six frames are in use and
\* the tree branches below the root (two bottom-level nodes).
C16_Witness ==
    /\ IsCreate(last) /\ nalloc = 6
    /\ Cardinality(LevelNodes(mem, 5)) = 2
    /\ Cardinality(PointerEntries(mem)) = 5

\* ------------------------------------------------------- two page tables
\* Two tables side by side, their roots the first two frames the allocator
\* handed out; calls are whole, as in Spec.

\* Frames the allocator may hand out, the two roots included.
TwoMaxFrames == 10

TwoRoots == {ToWord(0), ToWord(1)}

\* 0x1000, its sibling 0x1001, and a vpn that shares only the top-level
\* entry with them.
TwoVPNs == {ToWord(4096), ToWord(4097), ToWord(4096) \cup {27}}

TwoPPNs == {ToWord(7), ToWord(9), NO_MAPPING}

\* Both roots have been allocated and every frame is zero.
TwoInit ==
    /\ mem = << >>
    /\ nalloc = Cardinality(TwoRoots)
    /\ last = [op |-> "none", pt |-> Zero, vpn |-> Zero, ppn |-> Zero,
               old |-> Zero, ret |-> Zero]
    /\ amap = << >>
    /\ call = IdleCall

\* A call page_table_update(pt, vpn, ppn) on one of the two tables.
TwoUpdate(pt, vpn, ppn) ==
    LET s == page_table_update(Machine, pt, vpn, ppn)
    IN  /\ s.nalloc <= TwoMaxFrames
        /\ mem' = s.mem
        /\ nalloc' = s.nalloc
        /\ last' = [op |-> "update", pt |-> pt, vpn |-> vpn, ppn |-> ppn,
                     old |-> page_table_query(Machine, pt, vpn).ret, ret |-> Zero]
        /\ amap' = IF ppn = NO_MAPPING
                   THEN [k \in DOMAIN amap \ {<<pt, Low45(vpn)>>} |-> amap[k]]
                   ELSE [k \in DOMAIN amap \cup {<<pt, Low45(vpn)>>} |->
                            IF k = <<pt, Low45(vpn)>> THEN ppn ELSE amap[k]]
        /\ UNCHANGED call

TwoNext ==
    \/ \E pt \in TwoRoots, vpn \in TwoVPNs, ppn \in TwoPPNs : TwoUpdate(pt, vpn, ppn)
    \/ \E pt \in TwoRoots, vpn \in TwoVPNs : Query(pt, vpn)

TwoSpec == TwoInit /\ [][TwoNext]_vars

\* C17: for two distinct roots R1 and R2 obtained from the allocator, an
\* update on R1 (and so any sequence of them) leaves page_table_query(R2, v)
\* as it was for every v.
C17_TableIsolation ==
    \A R1 \in TwoRoots, R2 \in TwoRoots :
        R1 # R2 =>
            \A v1 \in TwoVPNs, p \in TwoPPNs, v \in TwoVPNs :
                Lookup(page_table_update(Machine, R1, v1, p), R2, v) =
                    Lookup(Machine, R2, v)

\* C17 witness: an update on one table has just allocated a node while the
\* other table maps the same vpn to another ppn, and still does.
C17_Witness ==
    /\ IsCreate(last) /\ last.old = NO_MAPPING
    /\ \E R2 \in TwoRoots \ {last.pt} :
          /\ Lookup(Machine, R2, last.vpn) # NO_MAPPING
          /\ Lookup(Machine, R2, last.vpn) # Lookup(Machine, last.pt, last.vpn)
          /\ \E v \in TwoVPNs \ {last.vpn} : Lookup(Machine, R2, v) # NO_MAPPING

====
